---- MODULE Spec2Model ----
(***************************************************************************)
(* A model of the Ledger class (src/Ledger/__init__.py) running against a  *)
(* shared relational store.  Every Ledger instance owns one connection;    *)
(* each connection.execute / commit / begin of the Python code is one      *)
(* step, so that the statements of calls made on different connections     *)
(* interleave the way they do on the store (READ COMMITTED: a statement    *)
(* sees the committed rows plus the uncommitted rows of its own            *)
(* transaction; an UPDATE holds a row lock until its transaction ends).    *)
(***************************************************************************)
EXTENDS Integers, Sequences, FiniteSets, TLC

\* ---------------------------------------------------------------- bounds
NumConns == 2        \* Ledger instances (one connection each)
MaxAccounts == 3     \* largest account_id the accounts sequence hands out
MaxSeedAccounts == 2 \* accounts present before the first call
MaxSeedBalance == 2  \* largest starting balance of a seeded account
MaxAmount == 1       \* largest amount passed to transfer_funds
MaxCalls == 2        \* method calls made in one behaviour
MaxFaults == 1       \* statements the store fails (timeout, lost link)

Conns == 1..NumConns
Ids == 1..MaxAccounts
Names == {"a", "b"}
Amounts == 0..MaxAmount

VARIABLES
    accounts,      \* committed rows of "accounts":     account_id -> name
    balances,      \* committed rows of "balances":     account_id -> balance
    transactions,  \* committed rows of "transactions", in insertion order
    nextId,        \* next value of the account_id sequence
    seed,          \* the balances before the first call (never changes)
    pc,            \* per connection: the statement the call is at, or "idle"
    txn,           \* per connection: "none", "open" or "failed" transaction
    pend,          \* per connection: uncommitted rows of its transaction
    args,          \* per connection: method and arguments of the current call
    account_id,    \* per connection: local of create_account (line 57)
    debit_account_balance, \* per connection: local of transfer_funds (line 100)
    ret,           \* per connection: value returned by get_all_account_ids
    result,        \* per connection: how the last call ended
    pre,           \* per connection: committed balances / row count at call
    calls,         \* calls made so far
    faults,        \* statements failed by the store so far
    script         \* random_transfers.py: its position and its locals

vars == <<accounts, balances, transactions, nextId, seed, pc, txn, pend, args,
          account_id, debit_account_balance, ret, result, pre, calls, faults,
          script>>

db == <<accounts, balances, transactions>>
locals == <<account_id, debit_account_balance, ret>>

\* ------------------------------------------------------------ the store
EmptyFn == [x \in {} |-> 0]

NoPending == [acct |-> EmptyFn, bal |-> EmptyFn, tx |-> <<>>]

\* f overridden at key k
Put(f, k, v) == [x \in (DOMAIN f) \cup {k} |-> IF x = k THEN v ELSE f[x]]

\* g where it is defined, f elsewhere
Overlay(g, f) == [x \in (DOMAIN g) \cup (DOMAIN f) |->
                     IF x \in DOMAIN g THEN g[x] ELSE f[x]]

\* rows a statement of connection c sees
VisAccounts(c) == Overlay(pend[c].acct, accounts)
VisBalances(c) == Overlay(pend[c].bal, balances)

\* a schema without the REFERENCES constraints
FKNotEnforced(c, id) == TRUE

\* balances.account_id / transactions.*_account_id REFERENCES accounts
FKAccountExists(c, id) == id \in DOMAIN VisAccounts(c)

\* balances.account_id PRIMARY KEY
BalancesPKFree(c, id) == id \notin DOMAIN VisBalances(c)

\* row lock of balances[id] held by the open transaction of another connection
RowLocked(c, id) == \E o \in Conns \ {c} : id \in DOMAIN pend[o].bal

RECURSIVE SumOver(_, _)
SumOver(f, S) == IF S = {} THEN 0
                 ELSE LET x == CHOOSE y \in S : TRUE
                      IN f[x] + SumOver(f, S \ {x})

Sum(f) == SumOver(f, DOMAIN f)

\* ------------------------------------------------------------- Init
\* random_transfers.py is not running
NoScript == [pc |-> "off", num_transfers |-> 0, account_ids |-> {}, i |-> 0,
             debit_account_id |-> 0, credit_account_id |-> 0, amount |-> 0,
             issued |-> 0]

SeedNames == <<"a", "b", "a">>

Init ==
    /\ \E n \in 0..MaxSeedAccounts :
         /\ accounts = [i \in 1..n |-> SeedNames[((i - 1) % 3) + 1]]
         /\ balances \in [1..n -> 0..MaxSeedBalance]
         /\ nextId = n + 1
    /\ seed = balances
    /\ transactions = <<>>
    /\ pc = [c \in Conns |-> "idle"]
    /\ txn = [c \in Conns |-> "none"]
    /\ pend = [c \in Conns |-> NoPending]
    /\ args = [c \in Conns |-> [op |-> "none"]]
    /\ account_id = [c \in Conns |-> 0]
    /\ debit_account_balance = [c \in Conns |-> 0]
    /\ ret = [c \in Conns |-> {}]
    /\ result = [c \in Conns |-> "none"]
    /\ pre = [c \in Conns |-> [bal |-> EmptyFn, ntx |-> 0]]
    /\ calls = 0
    /\ faults = 0
    /\ script = NoScript

\* ------------------------------------------------------- calling a method
\* the committed rows, as a caller sees them just before its call
Snapshot == [bal |-> balances, ntx |-> Len(transactions)]

\* create_account calls that have not yet drawn their account_id
Drawing == {c \in Conns : pc[c] \in {"ca_begin", "ca_insert_acct"}}

\* the call itself: arguments bound, locals fresh, first statement next
Invoke(c, a, first) ==
    /\ calls' = calls + 1
    /\ args' = [args EXCEPT ![c] = a]
    /\ pc' = [pc EXCEPT ![c] = first]
    /\ result' = [result EXCEPT ![c] = "none"]
    /\ pre' = [pre EXCEPT ![c] = Snapshot]
    /\ account_id' = [account_id EXCEPT ![c] = 0]
    /\ debit_account_balance' = [debit_account_balance EXCEPT ![c] = 0]
    /\ ret' = [ret EXCEPT ![c] = {}]
    /\ UNCHANGED <<db, nextId, seed, txn, pend, faults>>

Enter(c, a, first) ==
    /\ calls < MaxCalls
    /\ Invoke(c, a, first)
    /\ UNCHANGED script

CallGetAllAccountIds(c) ==
    /\ pc[c] = "idle"
    /\ Enter(c, [op |-> "get_all_account_ids"], "ga_select")

CallCreateAccount(c) ==
    /\ pc[c] = "idle"
    /\ nextId + Cardinality(Drawing) <= MaxAccounts
    /\ \E name \in Names :
         Enter(c, [op |-> "create_account", name |-> name], "ca_begin")

CallTransferFunds(c) ==
    /\ pc[c] = "idle"
    /\ \E d \in Ids, cr \in Ids, amount \in Amounts :
         Enter(c, [op |-> "transfer_funds", debit_account_id |-> d,
                   credit_account_id |-> cr, amount |-> amount], "tf_insert")

\* ------------------------------------------------- how a statement ends
\* the call returns or raises: r is "ok" or the name of the exception
Return(c, r) ==
    /\ pc' = [pc EXCEPT ![c] = "idle"]
    /\ result' = [result EXCEPT ![c] = r]

Goto(c, label) ==
    /\ pc' = [pc EXCEPT ![c] = label]
    /\ UNCHANGED result

\* the store rejects a statement: the transaction is aborted, its
\* uncommitted rows are gone, and nothing rolls it back on the connection
Abort(c, r) ==
    /\ txn' = [txn EXCEPT ![c] = "failed"]
    /\ pend' = [pend EXCEPT ![c] = NoPending]
    /\ Return(c, r)

\* an exception leaves the "with self.connection.begin()" block: rollback
Rollback(c, r) ==
    /\ txn' = [txn EXCEPT ![c] = "none"]
    /\ pend' = [pend EXCEPT ![c] = NoPending]
    /\ Return(c, r)

\* connection.commit(), or the normal exit of the with block
CommitWrites(c) ==
    /\ accounts' = Overlay(pend[c].acct, accounts)
    /\ balances' = Overlay(pend[c].bal, balances)
    /\ transactions' = transactions \o pend[c].tx
    /\ pend' = [pend EXCEPT ![c] = NoPending]
    /\ txn' = [txn EXCEPT ![c] = "none"]

\* ----------------------------------------------- get_all_account_ids
GaSelect(c) ==
    /\ pc[c] = "ga_select"
    /\ UNCHANGED <<db, nextId, seed, script, args, account_id, debit_account_balance,
                   pre, calls, faults>>
    /\ IF txn[c] = "failed"
       THEN /\ Return(c, "InternalError")
            /\ UNCHANGED <<txn, pend, ret>>
       ELSE /\ txn' = [txn EXCEPT ![c] = "open"]
            /\ ret' = [ret EXCEPT ![c] = DOMAIN VisAccounts(c)]
            /\ Return(c, "ok")
            /\ UNCHANGED pend

\* ------------------------------------------------------ create_account
CaBegin(c) ==
    /\ pc[c] = "ca_begin"
    /\ UNCHANGED <<db, nextId, seed, script, pend, args, locals, pre, calls, faults>>
    /\ IF txn[c] # "none"
       THEN /\ Return(c, "InvalidRequestError")
            /\ UNCHANGED txn
       ELSE /\ txn' = [txn EXCEPT ![c] = "open"]
            /\ Goto(c, "ca_insert_acct")

\* the account row committed on its own, outside the block's transaction
CaInsertAccountAutocommit(c) ==
    /\ pc[c] = "ca_insert_acct"
    /\ nextId' = nextId + 1
    /\ accounts' = Put(accounts, nextId, args[c].name)
    /\ Goto(c, "ca_select")
    /\ UNCHANGED <<balances, transactions, seed, script, txn, pend, args, locals, pre,
                   calls, faults>>

CaInsertAccount(c) ==
    /\ pc[c] = "ca_insert_acct"
    /\ nextId' = nextId + 1
    /\ pend' = [pend EXCEPT ![c].acct = Put(@, nextId, args[c].name)]
    /\ Goto(c, "ca_select")
    /\ UNCHANGED <<db, seed, script, txn, args, locals, pre, calls, faults>>

CaSelect(c) ==
    /\ pc[c] = "ca_select"
    /\ \E id \in {i \in DOMAIN VisAccounts(c) :
                    VisAccounts(c)[i] = args[c].name} :
         account_id' = [account_id EXCEPT ![c] = id]
    /\ Goto(c, "ca_insert_bal")
    /\ UNCHANGED <<db, nextId, seed, script, txn, pend, args, debit_account_balance,
                   ret, pre, calls, faults>>

\* the balance row written as an upsert: an existing row is reset to 0
CaInsertBalanceUpsert(c) ==
    /\ pc[c] = "ca_insert_bal"
    /\ ~RowLocked(c, account_id[c])
    /\ UNCHANGED <<db, nextId, seed, script, args, locals, pre, calls, faults>>
    /\ IF FKAccountExists(c, account_id[c])
       THEN /\ pend' = [pend EXCEPT ![c].bal = Put(@, account_id[c], 0)]
            /\ Goto(c, "ca_commit")
            /\ UNCHANGED txn
       ELSE Rollback(c, "IntegrityError")

CaInsertBalance(c) ==
    /\ pc[c] = "ca_insert_bal"
    /\ ~RowLocked(c, account_id[c])
    /\ UNCHANGED <<db, nextId, seed, script, args, locals, pre, calls, faults>>
    /\ IF FKAccountExists(c, account_id[c]) /\ BalancesPKFree(c, account_id[c])
       THEN /\ pend' = [pend EXCEPT ![c].bal = Put(@, account_id[c], 0)]
            /\ Goto(c, "ca_commit")
            /\ UNCHANGED txn
       ELSE Rollback(c, "IntegrityError")

CaCommit(c) ==
    /\ pc[c] = "ca_commit"
    /\ CommitWrites(c)
    /\ Return(c, "ok")
    /\ UNCHANGED <<nextId, seed, script, args, locals, pre, calls, faults>>

\* ------------------------------------------------------ transfer_funds
TfInsert(c) ==
    /\ pc[c] = "tf_insert"
    /\ UNCHANGED <<db, nextId, seed, script, args, locals, pre, calls, faults>>
    /\ IF txn[c] = "failed"
       THEN /\ Return(c, "InternalError")
            /\ UNCHANGED <<txn, pend>>
       ELSE IF /\ FKAccountExists(c, args[c].debit_account_id)
               /\ FKAccountExists(c, args[c].credit_account_id)
       THEN /\ txn' = [txn EXCEPT ![c] = "open"]
            /\ pend' = [pend EXCEPT ![c].tx = Append(@,
                          [debit_account_id |-> args[c].debit_account_id,
                           credit_account_id |-> args[c].credit_account_id,
                           amount |-> args[c].amount])]
            /\ Goto(c, "tf_commit1")
       ELSE Abort(c, "IntegrityError")

TfCommitInsert(c) ==
    /\ pc[c] = "tf_commit1"
    /\ CommitWrites(c)
    /\ Goto(c, "tf_select")
    /\ UNCHANGED <<nextId, seed, script, args, locals, pre, calls, faults>>

TfSelect(c) ==
    /\ pc[c] = "tf_select"
    /\ txn' = [txn EXCEPT ![c] = "open"]
    /\ UNCHANGED <<db, nextId, seed, script, pend, args, account_id, ret, pre, calls,
                   faults>>
    /\ IF args[c].debit_account_id \in DOMAIN VisBalances(c)
       THEN /\ debit_account_balance' = [debit_account_balance EXCEPT ![c] =
                   VisBalances(c)[args[c].debit_account_id]]
            /\ Goto(c, "tf_update")
       ELSE /\ Return(c, "TypeError")
            /\ UNCHANGED debit_account_balance

\* line 105 executing the statement of line 91 again instead of the UPDATE
TfUpdateStaleInsert(c) ==
    /\ pc[c] = "tf_update"
    /\ pend' = [pend EXCEPT ![c].tx = Append(@,
                  [debit_account_id |-> args[c].debit_account_id,
                   credit_account_id |-> args[c].credit_account_id,
                   amount |-> args[c].amount])]
    /\ Goto(c, "tf_commit2")
    /\ UNCHANGED <<db, nextId, seed, script, txn, args, locals, pre, calls, faults>>

\* the UPDATE of line 103 written without its WHERE clause
TfUpdateAllRows(c) ==
    /\ pc[c] = "tf_update"
    /\ \A id \in DOMAIN balances : ~RowLocked(c, id)
    /\ LET debit_new_balance == debit_account_balance[c] - args[c].amount
       IN pend' = [pend EXCEPT ![c].bal =
                     [id \in DOMAIN VisBalances(c) |-> debit_new_balance]]
    /\ Goto(c, "tf_commit2")
    /\ UNCHANGED <<db, nextId, seed, script, txn, args, locals, pre, calls, faults>>

TfUpdate(c) ==
    /\ pc[c] = "tf_update"
    /\ ~RowLocked(c, args[c].debit_account_id)
    /\ LET debit_new_balance == debit_account_balance[c] - args[c].amount
       IN pend' = [pend EXCEPT ![c].bal =
                     IF args[c].debit_account_id \in DOMAIN VisBalances(c)
                     THEN Put(@, args[c].debit_account_id, debit_new_balance)
                     ELSE @]
    /\ Goto(c, "tf_commit2")
    /\ UNCHANGED <<db, nextId, seed, script, txn, args, locals, pre, calls, faults>>

\* line 106 missing: the call returns with its UPDATE uncommitted
TfReturnUncommitted(c) ==
    /\ pc[c] = "tf_commit2"
    /\ Return(c, "ok")
    /\ UNCHANGED <<db, nextId, seed, script, txn, pend, args, locals, pre, calls,
                   faults>>

TfCommitUpdate(c) ==
    /\ pc[c] = "tf_commit2"
    /\ CommitWrites(c)
    /\ Return(c, "ok")
    /\ UNCHANGED <<nextId, seed, script, args, locals, pre, calls, faults>>

\* --------------------------------------------------- the store failing
InBlock(c) == pc[c] \in {"ca_insert_acct", "ca_select", "ca_insert_bal"}
AtExecute(c) == InBlock(c) \/ pc[c] \in {"ga_select", "tf_insert", "tf_select",
                                         "tf_update"}

\* connection.execute raises because the store timed out or went away
StoreFailure(c) ==
    /\ AtExecute(c)
    /\ txn[c] # "failed"
    /\ faults < MaxFaults
    /\ faults' = faults + 1
    /\ IF InBlock(c) THEN Rollback(c, "OperationalError")
                     ELSE Abort(c, "OperationalError")
    /\ UNCHANGED <<db, nextId, seed, script, args, locals, pre, calls>>

\* ---------------------------------------------------- specifications
Step(c) ==
    \/ CallGetAllAccountIds(c)
    \/ CallCreateAccount(c)
    \/ CallTransferFunds(c)
    \/ GaSelect(c)
    \/ CaBegin(c)
    \/ CaInsertAccount(c)
    \/ CaSelect(c)
    \/ CaInsertBalance(c)
    \/ CaCommit(c)
    \/ TfInsert(c)
    \/ TfCommitInsert(c)
    \/ TfSelect(c)
    \/ TfUpdate(c)
    \/ TfCommitUpdate(c)
    \/ StoreFailure(c)

\* callers on every connection, statements interleaved
Next == \E c \in Conns : Step(c)

Spec == Init /\ [][Next]_vars

\* a statement of a call in progress on connection c
Statement(c) ==
    \/ GaSelect(c)
    \/ CaBegin(c)
    \/ CaInsertAccount(c)
    \/ CaSelect(c)
    \/ CaInsertBalance(c)
    \/ CaCommit(c)
    \/ TfInsert(c)
    \/ TfCommitInsert(c)
    \/ TfSelect(c)
    \/ TfUpdate(c)
    \/ TfCommitUpdate(c)

\* every process keeps executing the statements of the call it is in, and
\* the store serves a statement that is not waiting for a row lock
FairSpec == Spec /\ \A c \in Conns : WF_vars(Statement(c))

\* ---- two accounts per connection, one transfer each, pairs disjoint
PairIds(c) == {2 * c - 1, 2 * c}

PairInit ==
    /\ accounts = [i \in 1..(2 * NumConns) |-> SeedNames[((i - 1) % 3) + 1]]
    /\ balances \in [1..(2 * NumConns) -> 0..MaxSeedBalance]
    /\ nextId = 2 * NumConns + 1
    /\ seed = balances
    /\ transactions = <<>>
    /\ pc = [c \in Conns |-> "idle"]
    /\ txn = [c \in Conns |-> "none"]
    /\ pend = [c \in Conns |-> NoPending]
    /\ args = [c \in Conns |-> [op |-> "none"]]
    /\ account_id = [c \in Conns |-> 0]
    /\ debit_account_balance = [c \in Conns |-> 0]
    /\ ret = [c \in Conns |-> {}]
    /\ result = [c \in Conns |-> "none"]
    /\ pre = [c \in Conns |-> [bal |-> EmptyFn, ntx |-> 0]]
    /\ calls = 0
    /\ faults = 0
    /\ script = NoScript

\* the one transfer of connection c, between the accounts of its pair
CallPairTransfer(c) ==
    /\ pc[c] = "idle"
    /\ args[c].op = "none"
    /\ \E d \in PairIds(c), cr \in PairIds(c), amount \in Amounts :
         Enter(c, [op |-> "transfer_funds", debit_account_id |-> d,
                   credit_account_id |-> cr, amount |-> amount], "tf_insert")

PairNext ==
    \E c \in Conns :
        \/ CallPairTransfer(c)
        \/ TfInsert(c)
        \/ TfCommitInsert(c)
        \/ TfSelect(c)
        \/ TfUpdate(c)
        \/ TfCommitUpdate(c)

PairSpec == PairInit /\ [][PairNext]_vars

\* ------------------------------------------------ random_transfers.py
MaxTransfers == 2    \* largest --num_transfers
MinTransfer == 100   \* random.randint(100, 1000)
MaxTransfer == 1000

\* the amounts randint can return, by its two extremes
ScriptAmounts == {MinTransfer, MaxTransfer}

\* the connection of the script's Ledger instance
ScriptConn == 1

ScriptInit ==
    /\ \E n \in 0..MaxSeedAccounts :
         /\ accounts = [i \in 1..n |-> SeedNames[((i - 1) % 3) + 1]]
         /\ balances \in [1..n -> 0..MaxSeedBalance]
         /\ nextId = n + 1
    /\ seed = balances
    /\ transactions = <<>>
    /\ pc = [c \in Conns |-> "idle"]
    /\ txn = [c \in Conns |-> "none"]
    /\ pend = [c \in Conns |-> NoPending]
    /\ args = [c \in Conns |-> [op |-> "none"]]
    /\ account_id = [c \in Conns |-> 0]
    /\ debit_account_balance = [c \in Conns |-> 0]
    /\ ret = [c \in Conns |-> {}]
    /\ result = [c \in Conns |-> "none"]
    /\ pre = [c \in Conns |-> [bal |-> EmptyFn, ntx |-> 0]]
    /\ calls = 0
    /\ faults = 0
    /\ \E n \in 0..MaxTransfers :
         script = [NoScript EXCEPT !.pc = "get_account_ids",
                                   !.num_transfers = n]

ScriptKeepsLedger ==
    UNCHANGED <<db, nextId, seed, pc, txn, pend, args, locals, result, pre,
                calls, faults>>

\* line 15: account_ids = Ledger.get_all_account_ids()
ScriptGetAccountIds ==
    /\ script.pc = "get_account_ids"
    /\ pc[ScriptConn] = "idle"
    /\ Invoke(ScriptConn, [op |-> "get_all_account_ids"], "ga_select")
    /\ script' = [script EXCEPT !.pc = "got_account_ids"]

\* lines 15-17: the list is bound, and an empty one raises ValueError
ScriptCheckAccountIds ==
    /\ script.pc = "got_account_ids"
    /\ pc[ScriptConn] = "idle"
    /\ script' = IF result[ScriptConn] # "ok" \/ ret[ScriptConn] = {}
                 THEN [script EXCEPT !.pc = "raised"]
                 ELSE [script EXCEPT !.pc = "for",
                                     !.account_ids = ret[ScriptConn]]
    /\ ScriptKeepsLedger

\* lines 20-22: the next iteration picks its debit account, or the loop ends
ScriptFor ==
    /\ script.pc = "for"
    /\ IF script.i < script.num_transfers
       THEN \E choice \in script.account_ids :
               script' = [script EXCEPT !.pc = "while",
                                        !.debit_account_id = choice,
                                        !.credit_account_id = choice]
       ELSE script' = [script EXCEPT !.pc = "done"]
    /\ ScriptKeepsLedger

\* lines 23-24: while debit == credit, pick the credit account again
ScriptWhile ==
    /\ script.pc = "while"
    /\ IF script.debit_account_id = script.credit_account_id
       THEN \E choice \in script.account_ids :
               script' = [script EXCEPT !.credit_account_id = choice]
       ELSE script' = [script EXCEPT !.pc = "transfer"]
    /\ ScriptKeepsLedger

\* lines 25-26: amount = random.randint(100, 1000); Ledger.transfer_funds
ScriptTransfer ==
    /\ script.pc = "transfer"
    /\ pc[ScriptConn] = "idle"
    /\ \E amount \in ScriptAmounts :
         /\ Invoke(ScriptConn,
                   [op |-> "transfer_funds",
                    debit_account_id |-> script.debit_account_id,
                    credit_account_id |-> script.credit_account_id,
                    amount |-> amount], "tf_insert")
         /\ script' = [script EXCEPT !.pc = "transferring",
                                     !.amount = amount,
                                     !.issued = @ + 1]

\* line 26 returns (next iteration of line 20) or raises (the script ends)
ScriptTransferred ==
    /\ script.pc = "transferring"
    /\ pc[ScriptConn] = "idle"
    /\ script' = IF result[ScriptConn] = "ok"
                 THEN [script EXCEPT !.pc = "for", !.i = @ + 1]
                 ELSE [script EXCEPT !.pc = "raised"]
    /\ ScriptKeepsLedger

ScriptNext ==
    \/ ScriptGetAccountIds
    \/ ScriptCheckAccountIds
    \/ ScriptFor
    \/ ScriptWhile
    \/ ScriptTransfer
    \/ ScriptTransferred
    \/ GaSelect(ScriptConn)
    \/ TfInsert(ScriptConn)
    \/ TfCommitInsert(ScriptConn)
    \/ TfSelect(ScriptConn)
    \/ TfUpdate(ScriptConn)
    \/ TfCommitUpdate(ScriptConn)
    \/ StoreFailure(ScriptConn)

ScriptSpec == ScriptInit /\ [][ScriptNext]_vars

\* one caller: only the first connection is used
SeqNext == Step(1)

SeqSpec == Init /\ [][SeqNext]_vars

TypeOK ==
    /\ DOMAIN accounts \subseteq Ids
    /\ DOMAIN balances \subseteq Ids
    /\ nextId \in 1..(MaxAccounts + 1)
    /\ \A c \in Conns : txn[c] \in {"none", "open", "failed"}

\* ---------------------------------------------------------------- claims
Idle(c) == pc[c] = "idle"
Ended(c, op) == Idle(c) /\ args[c].op = op /\ result[c] # "none"
Errors == {"IntegrityError", "OperationalError", "InternalError",
           "InvalidRequestError", "TypeError"}

SeedOf(id) == IF id \in DOMAIN seed THEN seed[id] ELSE 0

RECURSIVE Moved(_, _, _)
\* total amount of the first n committed records whose field fld names id
Moved(fld, id, n) ==
    IF n = 0 THEN 0
    ELSE (IF transactions[n][fld] = id THEN transactions[n].amount ELSE 0)
         + Moved(fld, id, n - 1)

Credits(id) == Moved("credit_account_id", id, Len(transactions))
Debits(id) == Moved("debit_account_id", id, Len(transactions))

\* a transfer between two distinct accounts that existed when it was called,
\* of a positive amount
Regular(c) ==
    /\ args[c].op = "transfer_funds"
    /\ args[c].debit_account_id # args[c].credit_account_id
    /\ args[c].debit_account_id \in DOMAIN pre[c].bal
    /\ args[c].credit_account_id \in DOMAIN pre[c].bal
    /\ args[c].amount > 0

\* no statement has failed and every committed record moves a positive
\* amount between two distinct accounts
PlainHistory ==
    /\ faults = 0
    /\ \A i \in 1..Len(transactions) :
          /\ transactions[i].debit_account_id # transactions[i].credit_account_id
          /\ transactions[i].amount > 0

\* C1: conservation - in every committed state (here: reached by transfers
\* of positive amounts between distinct accounts) the sum of all balances
\* equals the sum of the balances before the first transfer.
Conservation == PlainHistory => Sum(balances) = Sum(seed)

\* C2: non-negativity - in every committed state (here: reached by
\* transfers of positive amounts between distinct accounts) every balance
\* is >= 0.
NonNegativity == PlainHistory => \A id \in DOMAIN balances : balances[id] >= 0

\* C3: all-or-nothing - in every committed state (here: reached by
\* transfers of positive amounts between distinct accounts) each balance is
\* its starting balance plus the committed records crediting the account
\* minus the committed records debiting it.
AllOrNothing ==
    PlainHistory =>
        \A id \in DOMAIN balances :
            balances[id] = SeedOf(id) + Credits(id) - Debits(id)

\* C4: effect of a successful transfer (one caller) - after a regular
\* transfer with debit balance >= amount returns, the debit balance is lower
\* by amount, the credit balance higher by amount, one record
\* (debit, credit, amount) was appended and no other balance changed.
TransferEffect ==
    \A c \in Conns :
        (/\ Ended(c, "transfer_funds") /\ result[c] = "ok"
         /\ Regular(c)
         /\ pre[c].bal[args[c].debit_account_id] >= args[c].amount)
        => LET d == args[c].debit_account_id
               cr == args[c].credit_account_id
           IN /\ balances[d] = pre[c].bal[d] - args[c].amount
              /\ balances[cr] = pre[c].bal[cr] + args[c].amount
              /\ Len(transactions) = pre[c].ntx + 1
              /\ transactions[Len(transactions)] =
                    [debit_account_id |-> d, credit_account_id |-> cr,
                     amount |-> args[c].amount]
              /\ \A o \in DOMAIN pre[c].bal \ {d, cr} :
                    balances[o] = pre[c].bal[o]

\* C5: failure atomicity (one caller) - when transfer_funds (here: a
\* regular transfer) ends with an error, the debit balance, the credit
\* balance and the number of transaction rows are what they were
\* immediately before the call.
FailureAtomicity ==
    \A c \in Conns :
        (Ended(c, "transfer_funds") /\ Regular(c) /\ result[c] \in Errors)
        => /\ Len(transactions) = pre[c].ntx
           /\ \A id \in {args[c].debit_account_id, args[c].credit_account_id}
                        \cap DOMAIN pre[c].bal :
                 balances[id] = pre[c].bal[id]

\* C6: overdraft rejection (one caller) - a regular transfer of more than
\* the debit balance, when it meets no other error, ends with
\* InsufficientFunds and changes no balance and no transaction row.
OverdraftRejected ==
    \A c \in Conns :
        (/\ Ended(c, "transfer_funds") /\ result[c] \notin Errors
         /\ Regular(c)
         /\ args[c].amount > pre[c].bal[args[c].debit_account_id])
        => /\ result[c] = "InsufficientFunds"
           /\ balances = pre[c].bal
           /\ Len(transactions) = pre[c].ntx

\* every connection has made exactly one call and it has ended
OneCallEach == calls = NumConns /\ \A c \in Conns : Idle(c) /\ result[c] # "none"

\* C7: no lost update - when every connection has completed one successful
\* regular transfer debiting the same account d, whose starting balance
\* covers them all, the balance of d is its starting balance minus all the
\* amounts.
RECURSIVE AmountsOf(_)
AmountsOf(S) == IF S = {} THEN 0
                ELSE LET c == CHOOSE x \in S : TRUE
                     IN args[c].amount + AmountsOf(S \ {c})

NoLostUpdate ==
    \A d \in DOMAIN seed :
        (/\ OneCallEach
         /\ \A c \in Conns : /\ Regular(c) /\ result[c] = "ok"
                             /\ args[c].debit_account_id = d
                             /\ args[c].credit_account_id \in DOMAIN seed
         /\ seed[d] >= AmountsOf(Conns))
        => balances[d] = seed[d] - AmountsOf(Conns)

\* C8: concurrent overdraft - N regular transfers of the same amount A, one
\* per connection, from an account starting at (N-1)*A: exactly N-1 succeed,
\* exactly one fails with InsufficientFunds, and the balance ends at 0.
ConcurrentOverdraft ==
    \A d \in DOMAIN seed : \A A \in 1..MaxAmount :
        (/\ OneCallEach /\ faults = 0
         /\ seed[d] = (NumConns - 1) * A
         /\ \A c \in Conns : /\ Regular(c)
                             /\ args[c].debit_account_id = d
                             /\ args[c].credit_account_id \in DOMAIN seed
                             /\ args[c].amount = A)
        => /\ Cardinality({c \in Conns : result[c] = "ok"}) = NumConns - 1
           /\ Cardinality({c \in Conns : result[c] = "InsufficientFunds"}) = 1
           /\ balances[d] = 0

\* C9: account/balance co-existence - in every committed state the
\* identifiers in "accounts" are exactly the identifiers in "balances".
CoExistence == DOMAIN accounts = DOMAIN balances

\* one create_account has committed its two rows; another has failed after
\* inserting its account row (its account_id was drawn and is in no table)
CoExistenceWitness ==
    /\ \E c \in Conns : Ended(c, "create_account") /\ result[c] = "ok"
    /\ \E c \in Conns : /\ Ended(c, "create_account")
                        /\ result[c] \in {"IntegrityError", "OperationalError"}
    /\ DOMAIN accounts # DOMAIN seed
    /\ \E id \in 1..(nextId - 1) : id \notin DOMAIN accounts

\* C10: create_account postcondition - the balance row a call inserts is
\* keyed by the account row inserted by the same call, and a call that
\* entered its block and met no store failure succeeds, whatever the name.
CreatePostcondition ==
    \A c \in Conns :
        /\ pc[c] = "ca_insert_bal" => account_id[c] \in DOMAIN pend[c].acct
        /\ Ended(c, "create_account") => result[c] # "IntegrityError"

\* a transfer whose two accounts existed when it was called
BothExist(c) ==
    /\ args[c].op = "transfer_funds"
    /\ args[c].debit_account_id \in DOMAIN pre[c].bal
    /\ args[c].credit_account_id \in DOMAIN pre[c].bal

\* C11: amount validation (one caller) - a transfer between two distinct
\* existing accounts with amount <= 0 never gets past its first statement,
\* and when it meets no other error it ends with InvalidArgument, with no
\* transaction record inserted and no balance changed.
AmountValidated ==
    \A c \in Conns :
        (/\ args[c].op = "transfer_funds" /\ BothExist(c)
         /\ args[c].debit_account_id # args[c].credit_account_id
         /\ args[c].amount <= 0)
        => /\ pc[c] \in {"idle", "tf_insert"}
           /\ (Idle(c) /\ result[c] \notin Errors /\ result[c] # "none")
              => /\ result[c] = "InvalidArgument"
                 /\ Len(transactions) = pre[c].ntx
                 /\ balances = pre[c].bal

\* the two accounts of the transfer exist now
AccountsPresent(c) ==
    /\ args[c].debit_account_id \in DOMAIN accounts
    /\ args[c].credit_account_id \in DOMAIN accounts

SameAccountTransfer ==
    \A c \in Conns :
        (/\ Ended(c, "transfer_funds") /\ result[c] = "ok" /\ BothExist(c)
         /\ args[c].debit_account_id = args[c].credit_account_id
         /\ args[c].amount > 0
         /\ pre[c].bal[args[c].debit_account_id] >= args[c].amount)
        => LET X == args[c].debit_account_id
           IN /\ balances[X] = pre[c].bal[X]
              /\ Len(transactions) = pre[c].ntx + 1
              /\ transactions[Len(transactions)] =
                    [debit_account_id |-> X, credit_account_id |-> X,
                     amount |-> args[c].amount]

\* the record transfer_funds inserts for the call of connection c
RecordOf(c) == [debit_account_id |-> args[c].debit_account_id,
                credit_account_id |-> args[c].credit_account_id,
                amount |-> args[c].amount]

\* C14: append-only log - no step modifies or removes a committed
\* transaction record; a step that changes the table appends exactly one
\* record, and it is the commit of line 94 of a transfer_funds call (which
\* every call passes at most once) appending that call's record.
AppendOnly ==
    [][/\ Len(transactions') >= Len(transactions)
       /\ SubSeq(transactions', 1, Len(transactions)) = transactions
       /\ transactions' # transactions =>
            /\ Len(transactions') = Len(transactions) + 1
            /\ \E c \in Conns :
                 /\ pc[c] = "tf_commit1" /\ pc'[c] = "tf_select"
                 /\ transactions'[Len(transactions')] = RecordOf(c)]_vars

\* two transfer_funds calls have committed their records
AppendOnlyWitness ==
    /\ Len(transactions) = 2
    /\ \E c \in Conns : Ended(c, "transfer_funds") /\ result[c] = "ok"

\* the rows of table t that existed before the step are unchanged after it
RowsKept(t, u) == \A id \in DOMAIN t : id \in DOMAIN u /\ u[id] = t[id]

\* C15: only transfers mutate balances - a step of a create_account call
\* keeps every existing account row, balance row and transaction record,
\* and adds at most one account row together with one balance row of the
\* same identifier and amount 0; a step of get_all_account_ids changes no
\* table.
OnlyTransfersMutate ==
    [][\A c \in Conns :
         /\ (args[c].op = "create_account" /\ pc[c] # "idle" /\ pc'[c] # pc[c])
            => /\ transactions' = transactions
               /\ RowsKept(accounts, accounts')
               /\ RowsKept(balances, balances')
               /\ DOMAIN accounts' \ DOMAIN accounts
                     = DOMAIN balances' \ DOMAIN balances
               /\ Cardinality(DOMAIN accounts' \ DOMAIN accounts) <= 1
               /\ \A id \in DOMAIN balances' \ DOMAIN balances :
                     balances'[id] = 0
         /\ (pc[c] = "ga_select" /\ pc'[c] # pc[c])
            => /\ accounts' = accounts
               /\ balances' = balances
               /\ transactions' = transactions]_vars

\* a create_account has committed its rows next to an account that holds
\* funds and carries the same name
OnlyTransfersMutateWitness ==
    \E c \in Conns :
        /\ Ended(c, "create_account") /\ result[c] = "ok"
        /\ DOMAIN accounts # DOMAIN seed
        /\ \E id \in DOMAIN seed :
              balances[id] > 0 /\ accounts[id] = args[c].name

\* C16 (one caller): get_all_account_ids, when the store fails no
\* statement, returns exactly the identifiers of all committed accounts - the
\* empty list when there is none - rather than failing.
AllAccountIdsReturned ==
    \A c \in Conns :
        (Ended(c, "get_all_account_ids") /\ faults = 0)
        => /\ result[c] = "ok"
           /\ ret[c] = DOMAIN accounts

\* C19 (one caller): after any method returns or raises, no transaction is
\* left open on the connection, and the explicit begin of create_account
\* therefore never finds one.
NoTransactionLeftOpen ==
    \A c \in Conns :
        /\ Idle(c) => txn[c] = "none"
        /\ Ended(c, "create_account") => result[c] # "InvalidRequestError"

Min(a, b) == IF a <= b THEN a ELSE b

\* balance rows locked by the open transaction of connection c
LocksHeld(c) == DOMAIN pend[c].bal

TransferAlone(bal, t) ==
    [bal EXCEPT ![t.debit_account_id] = @ - t.amount]

RECURSIVE RunInOrder(_, _)
\* the balances after the calls of connections order[1..n], one after the
\* other, starting from the seed
RunInOrder(order, n) ==
    IF n = 0 THEN seed
    ELSE TransferAlone(RunInOrder(order, n - 1), RecordOf(order[n]))

Ascending == [i \in 1..NumConns |-> i]
Descending == [i \in 1..NumConns |-> NumConns + 1 - i]

\* C18: independence of disjoint transfers - transfers on disjoint account
\* pairs never wait for each other's row lock, and once all have returned
\* the balances and the set of transaction records are those of running
\* them one after the other, in either order.
DisjointIndependent ==
    /\ \A c \in Conns :
          pc[c] = "tf_update" => ~RowLocked(c, args[c].debit_account_id)
    /\ (\A c \in Conns : Ended(c, "transfer_funds"))
       => /\ \A c \in Conns : result[c] = "ok"
          /\ balances = RunInOrder(Ascending, NumConns)
          /\ balances = RunInOrder(Descending, NumConns)
          /\ Len(transactions) = NumConns
          /\ {transactions[i] : i \in 1..Len(transactions)}
                = {RecordOf(c) : c \in Conns}

\* both transfers have returned after running interleaved: the second
\* connection's record was committed first, the first connection's UPDATE
\* last, and both moved funds
DisjointIndependentWitness ==
    /\ \A c \in Conns : Ended(c, "transfer_funds") /\ args[c].amount > 0
                        /\ args[c].debit_account_id # args[c].credit_account_id
    /\ transactions[1] = RecordOf(NumConns)
    /\ pre[1].ntx = 0
    /\ pre[NumConns].bal = seed

\* C20: workload generator - for every non-empty list of account
\* identifiers the loop of lines 23-24 can pick a credit account different
\* from the debit account (so it ends), every transfer_funds call issued has
\* debit # credit and 100 <= amount <= 1000, and the script, when no call
\* raises, ends having issued exactly num_transfers calls.
WorkloadTerminates ==
    /\ (script.pc = "while" /\ script.account_ids # {})
       => \E choice \in script.account_ids : choice # script.debit_account_id
    /\ script.pc = "transferring"
       => /\ script.debit_account_id # script.credit_account_id
          /\ script.amount >= 100 /\ script.amount <= 1000
    /\ script.pc = "done" => script.issued = script.num_transfers
    /\ script.issued <= script.num_transfers
    /\ (script.pc = "raised" /\ faults = 0) => DOMAIN accounts = {}

====
